---- MODULE Spec2Model ----
(***************************************************************************)
(* The execution job lifecycle controller of qknot: the ExecutionResults   *)
(* component (submit, bounded polling, cooperative cancellation, resume    *)
(* from the persisted pending-job snapshot).                               *)
(*                                                                         *)
(* JavaScript runs each handler to its next await without interruption, so *)
(* one action is one such run: a click handler up to its first fetch, or   *)
(* the continuation that a response or an expired sleep resumes, up to the *)
(* next fetch, sleep or the end of the handler (catch and finally          *)
(* included).  React state read by a continuation is the value its closure *)
(* captured at the click; values written by setState and the ref           *)
(* cancelRequestedRef are shared by every handler.                         *)
(***************************************************************************)
EXTENDS Integers, Sequences, FiniteSets, TLC

\* ---------------------------------------------------------------- bounds
maxPollAttempts == 2   \* the maxPollAttempts prop (N)
MaxOps == 2            \* submit/resume operations started in one behaviour
MaxCancels == 1        \* cancel operations started in one behaviour
MaxEdits == 1          \* edits of the runtime inputs in one behaviour
MaxTokens == 3         \* tokens of a braid word given to the validator

\* ------------------------------------------------------- program constants
MAX_SHOTS == 100000

targetBackend == "ibm_kyiv"
POLL_CANCELLED_ERROR == "QKNOT_POLL_CANCELLED"
IN_PROGRESS_JOB_STATUSES_AndUnknown ==
    {"INITIALIZING", "QUEUED", "RUNNING", "VALIDATING", "SUBMITTED", "PAUSED"}
IN_PROGRESS_JOB_STATUSES == {"INITIALIZING", "QUEUED", "RUNNING", "VALIDATING", "SUBMITTED"}
FAILED_JOB_STATUSES_OneSpelling == {"FAILED", "ERROR", "CANCELLED"}
FAILED_JOB_STATUSES == {"FAILED", "ERROR", "CANCELLED", "CANCELED"}

\* ------------------------------------------------------------ value shapes
\* null is the empty tuple, a present value x is <<x>>.
None == << >>
Some(x) == << x >>

\* the JavaScript null of PendingJobSnapshot.runtime_instance
NullInstance == "<null>"

\* job identifiers: 0 is the empty string, 1.. are the ids the service assigns
JobIds == 1..(MaxOps + 1)

\* values of the runtime channel select and of the runtime instance text box
Channels == {"auto", "ibm_cloud"}
Instances == {"", "hub "}

\* String.prototype.trim on the instance texts of the model
Trim(s) == IF s = "hub " THEN "hub" ELSE s

\* an Error object: its message pattern and the values interpolated into it
Err(kind, args) == [kind |-> kind, args |-> args]
NoError == Err("null", << >>)
TypeError == Err("TypeError", << >>)

\* ------------------------------------------------------------ pure helpers
isCompiledOrLaterOrVerified(status) == status \in {"verified", "compiled", "executed"}

\* status === 'compiled' || status === 'executed'
isCompiledOrLater(status) == status = "compiled" \/ status = "executed"

\* BRAID_TOKEN_REGEX /^s([1-9]\d*)(\^-1)?$/ on the token vocabulary of the
\* model: the generator index of a matching token, 0 when it does not match
BraidTokens ==
    {"s1", "s2", "s3", "s4", "s1^-1", "s2^-1", "s3^-1", "s4^-1", "s0", "s01", "S1", "s1^1", "x"}
BRAID_TOKEN_REGEX(token) ==
    CASE token \in {"s1", "s1^-1"} -> 1
      [] token \in {"s2", "s2^-1"} -> 2
      [] token \in {"s3", "s3^-1"} -> 3
      [] token \in {"s4", "s4^-1"} -> 4
      [] OTHER -> 0

\* `s${generator}`
GeneratorName(g) == << "s1", "s2", "s3", "s4" >>[g]

\* Math.max
SetMax(S) == CHOOSE m \in S : \A x \in S : x <= m

RECURSIVE FirstUnsupported(_)
RECURSIVE MissingFrom(_, _, _)

LastUnsupported(tokens) ==
    LET unmatched == { k \in 1..Len(tokens) : BRAID_TOKEN_REGEX(tokens[k]) = 0 }
    IN  IF unmatched = {} THEN "" ELSE tokens[SetMax(unmatched)]

\* the token on which the for loop over tokens returns: the first one the
\* regular expression does not match, "" when it matches them all
FirstUnsupported(tokens) ==
    IF tokens = << >> THEN ""
    ELSE IF BRAID_TOKEN_REGEX(Head(tokens)) = 0 THEN Head(tokens)
    ELSE FirstUnsupported(Tail(tokens))

TooFewTokensBelowTwo(tokens) == Len(tokens) < 2

\* tokens.length < 3
TooFewTokens(tokens) == Len(tokens) < 3

MissingFromFirstOnly(generator, maxGenerator, uniqueGenerators) ==
    LET missing == { g \in generator..maxGenerator : g \notin uniqueGenerators }
    IN  IF missing = {} THEN << >>
        ELSE << GeneratorName(CHOOSE g \in missing : \A h \in missing : g <= h) >>

\* the loop that collects missingGenerators, from generator to maxGenerator
MissingFrom(generator, maxGenerator, uniqueGenerators) ==
    IF generator > maxGenerator THEN << >>
    ELSE (IF generator \in uniqueGenerators THEN << >> ELSE << GeneratorName(generator) >>)
         \o MissingFrom(generator + 1, maxGenerator, uniqueGenerators)

validateBraidWordForExecutionAccepting(braidWord) == NoError

\* braidWord is the token sequence normalizedBraidWord.split(/\s+/) yields;
\* the empty sequence is the blank (or undefined) text
validateBraidWordForExecution(braidWord) ==
    IF braidWord = << >> THEN Err("Braid word is required before execution.", << >>)
    ELSE IF FirstUnsupported(braidWord) # ""
        THEN Err("Unsupported braid token", << FirstUnsupported(braidWord) >>)
    ELSE IF TooFewTokens(braidWord)
        THEN Err("Braid word must contain at least three generators before execution.", << >>)
    ELSE LET uniqueGenerators == { BRAID_TOKEN_REGEX(braidWord[k]) : k \in 1..Len(braidWord) }
             maxGenerator == SetMax(uniqueGenerators)
             missingGenerators == MissingFrom(1, maxGenerator, uniqueGenerators)
         IN  IF Cardinality(uniqueGenerators) < 2
                 THEN Err("Braid word must include at least two distinct generators before execution.", << >>)
             ELSE IF Len(missingGenerators) > 0
                 THEN Err("Braid word must use contiguous generators", << GeneratorName(maxGenerator) >> \o missingGenerators)
             ELSE NoError

\* the optional fields of a request body: "" stands for an omitted field
readRuntimePayload(runtimeChannel, runtimeInstance) ==
    [runtime_channel |-> IF runtimeChannel # "auto" THEN runtimeChannel ELSE "",
     runtime_instance |-> Trim(runtimeInstance)]

PendingJobSnapshot(job_id, backend_name, runtime_channel, runtime_instance) ==
    [job_id |-> job_id, backend_name |-> backend_name,
     runtime_channel |-> runtime_channel, runtime_instance |-> runtime_instance]

InstanceOrNullBlankKept(runtimeInstance) == Trim(runtimeInstance)

\* runtimeInstance.trim() ? runtimeInstance.trim() : null
InstanceOrNull(runtimeInstance) ==
    IF Trim(runtimeInstance) # "" THEN Trim(runtimeInstance) ELSE NullInstance

InstanceOrEmptyDropped(runtime_instance) == ""

\* pendingResumeJob.runtime_instance ?? ''
InstanceOrEmpty(runtime_instance) ==
    IF runtime_instance = NullInstance THEN "" ELSE runtime_instance

JobStatus(job_id, status) == [job_id |-> job_id, status |-> status]

\* texts of the shots box, and Number(value) on them: whether the result is
\* an integer (Number.isInteger) and, when it is, which one
ShotTexts == {"", " ", "0", "1", "1000", "8192", "100000", "100001", "1.5", "-3", "1e3", "abc"}
IsIntegerText(value) == value \in {"0", "1", "1000", "8192", "100000", "100001", "-3", "1e3"}
NumberOf(value) ==
    CASE value = "0" -> 0
      [] value = "1" -> 1
      [] value \in {"1000", "1e3"} -> 1000
      [] value = "8192" -> 8192
      [] value = "100000" -> 100000
      [] value = "100001" -> 100001
      [] value = "-3" -> 0 - 3

\* String(executionSettings.shots)
StringOf(shots) ==
    CASE shots = 1 -> "1"
      [] shots = 1000 -> "1000"
      [] shots = 8192 -> "8192"
      [] shots = 100000 -> "100000"
      [] shots = 0 -> "0"
      [] shots = 100001 -> "100001"
      [] shots = 0 - 3 -> "-3"

ShotsInRangeFromZero(parsed) == parsed >= 0 /\ parsed <= MAX_SHOTS

\* !(parsed < 1 || parsed > MAX_SHOTS)
ShotsInRange(parsed) == parsed >= 1 /\ parsed <= MAX_SHOTS

\* --------------------------------------------------------------- the state
VARIABLES
    store,              \* localStorage slot qknot.pending_job
    pendingResumeJob,   \* React state of the component, as are the next ten
    runtimeChannel,
    runtimeInstance,
    shotsInput,
    shotInputError,
    isExecuting,
    isCancelling,
    error,
    statusDetail,
    jobStatus,
    result,
    cancelRequestedRef, \* cancelRequestedRef.current
    activeKnot,         \* props owned by App
    executionSettings,
    ops,                \* the handleExecute / handleResumePendingJob invocations
    cancels,            \* the handleCancelJob invocations
    service,            \* the remote service: next job id and settled replies
    edits,              \* edits of the runtime inputs made so far
    invoked,            \* some handler of the three operations has been invoked
    completions         \* onExecutionComplete calls App has received, per job

vars == << store, pendingResumeJob, runtimeChannel, runtimeInstance, shotsInput,
           shotInputError, isExecuting, isCancelling, error, statusDetail,
           jobStatus, result, cancelRequestedRef, activeKnot, executionSettings,
           ops, cancels, service, edits, invoked, completions >>

\* An invocation of handleExecute or handleResumePendingJob.  pc is where it is
\* suspended; jobId .. attempt are the locals of the handler and of
\* pollRuntimeJob; the fields from polls on record its history.  The locals
\* and the history of the run die with the invocation: a finished one keeps
\* its kind.
IdleOp ==
    [kind |-> "none", pc |-> "idle",
     jobId |-> 0, backendNameHint |-> "", runtimeChannelForJob |-> "auto",
     runtimeInstanceForJob |-> "", generatedSignature |-> "", attempt |-> 0,
     shots |-> 0,             \* the shots of the submit request body
     submits |-> 0,           \* submit requests issued
     polls |-> 0,             \* poll requests issued
     inProgress |-> 0,        \* in-progress poll responses received
     cancelSeen |-> FALSE,    \* some cancel was invoked while it was in flight
     cancelled |-> FALSE,     \* a cancel of its job was invoked while in flight
     late |-> FALSE,          \* it issued a poll after a cancel of its job
     from |-> None,           \* the slot when resume was invoked
     differs |-> FALSE]       \* the runtime inputs differed from it then

IdleCancel ==
    [pc |-> "idle", job_id |-> 0, runtime |-> readRuntimePayload("auto", ""),
     ok |-> FALSE,            \* the remote call succeeded
     polling |-> FALSE,       \* a loop of its job was in flight when invoked
     opsBefore |-> 0]         \* operations started before it was invoked

InFlight(op) == op.pc \in {"submit", "poll", "sleep"}
opCount == Cardinality({ i \in 1..MaxOps : ops[i].kind # "none" })
cancelCount == Cardinality({ c \in 1..MaxCancels : cancels[c].pc # "idle" })

\* derived values of the render (lines 295-300)
canExecute == isCompiledOrLater(activeKnot.status)
visibleError == IF shotInputError # NoError THEN shotInputError ELSE error
hasInFlightJob == isExecuting /\ jobStatus # None
hasPendingResume == pendingResumeJob # None

\* What the slot can hold.  A text that is not a JSON object is [text |-> t]:
\* the empty string, a text JSON.parse throws on, and the JSON values null, 42
\* and [].  A JSON object is the record of its keys; a value of another type
\* than the one PendingJobSnapshot declares is -1 for job_id and "<number>"
\* for the other keys.
Text(t) == [text |-> t]
StoredTexts == { Text(t) : t \in {"", "{oops", "null", "42", "[]"} }
StoredObjects ==
    LET four == [job_id : {-1, 0, 1},
                 backend_name : {"<number>", "ibm_marrakesh"},
                 runtime_channel : {"auto", "ibm_cloud", "bogus"},
                 runtime_instance : {NullInstance, "hub", "<number>"}]
    IN  four
        \cup { [k \in {"job_id", "backend_name", "runtime_channel"} |-> o[k]] : o \in four }
        \cup { [k \in {"backend_name", "runtime_channel", "runtime_instance"} |-> o[k]] : o \in four }
        \cup { [k \in {"job_id", "runtime_channel", "runtime_instance"} |-> o[k]] : o \in four }
        \cup { [k \in {"job_id", "backend_name", "runtime_instance"} |-> o[k]] : o \in four }
        \cup { [k \in DOMAIN o \cup {"backend_url"} |->
                  IF k = "backend_url" THEN url ELSE o[k]] :
                  o \in four, url \in {"http://localhost", "<number>"} }
StoredValues == StoredTexts \cup StoredObjects

\* JSON.parse(stored) throws
ParseThrows(stored) == "text" \in DOMAIN stored /\ stored.text \in {"", "{oops"}

\* typeof candidate[key] === 'string', for the keys other than job_id
IsStringAt(value, key) == key \in DOMAIN value /\ value[key] \notin {"<number>", NullInstance}

isPendingJobSnapshotIgnoringInstance(value) ==
    /\ "text" \notin DOMAIN value
    /\ "job_id" \in DOMAIN value /\ value.job_id >= 0
    /\ IsStringAt(value, "backend_name")
    /\ "runtime_channel" \in DOMAIN value
    /\ value.runtime_channel \in {"auto", "ibm_quantum_platform", "ibm_cloud", "ibm_quantum"}
    /\ ("backend_url" \notin DOMAIN value \/ IsStringAt(value, "backend_url"))
    /\ "runtime_instance" \in DOMAIN value

\* value is what JSON.parse returned: null, 42 and [] have none of the keys
isPendingJobSnapshot(value) ==
    /\ "text" \notin DOMAIN value
    /\ "job_id" \in DOMAIN value /\ value.job_id >= 0
    /\ IsStringAt(value, "backend_name")
    /\ "runtime_channel" \in DOMAIN value
    /\ value.runtime_channel \in {"auto", "ibm_quantum_platform", "ibm_cloud", "ibm_quantum"}
    /\ ("backend_url" \notin DOMAIN value \/ IsStringAt(value, "backend_url"))
    /\ "runtime_instance" \in DOMAIN value
    /\ (value.runtime_instance = NullInstance \/ IsStringAt(value, "runtime_instance"))

\* the value loadPendingJobSnapshot returns
loadPendingJobSnapshot(slot) ==
    IF slot = None \/ slot = Some(Text("")) THEN None
    ELSE IF ParseThrows(slot[1]) THEN None
    ELSE IF ~isPendingJobSnapshot(slot[1]) THEN None
    ELSE slot

\* the slot as loadPendingJobSnapshot leaves it (removeItem on the two paths)
StoredAfterLoad(slot) ==
    IF slot = None \/ slot = Some(Text("")) THEN slot
    ELSE IF ParseThrows(slot[1]) THEN None
    ELSE IF ~isPendingJobSnapshot(slot[1]) THEN None
    ELSE slot

InitialOperationsAutoResume(pending) ==
    [i \in 1..MaxOps |->
        IF i = 1 /\ pending # None
        THEN [IdleOp EXCEPT !.kind = "resume", !.pc = "poll", !.polls = 1,
                            !.jobId = pending[1].job_id,
                            !.backendNameHint = pending[1].backend_name,
                            !.runtimeChannelForJob = pending[1].runtime_channel,
                            !.runtimeInstanceForJob = InstanceOrEmpty(pending[1].runtime_instance),
                            !.from = pending]
        ELSE IdleOp]

\* what the construction of the component starts: useState initialisers and
\* one effect that copies executionSettings.shots into the shots text box
InitialOperations(pending) == [i \in 1..MaxOps |-> IdleOp]

InitialKnots ==
    { [status |-> "compiled", braidWord |-> << "s1", "s2^-1", "s1" >>, signature |-> sig]
        : sig \in {"A"} }

\* a snapshot a previous session left behind: job 1, the service is at job 2
InitialSlots ==
    { None } \cup
    { Some(PendingJobSnapshot(1, "ibm_marrakesh", "ibm_cloud", "hub")) }

\* the component as mounted with one of the given knots as its activeKnot prop
InitWith(knots) ==
    /\ store \in InitialSlots
    /\ pendingResumeJob = loadPendingJobSnapshot(store)
    /\ runtimeChannel = IF pendingResumeJob # None THEN pendingResumeJob[1].runtime_channel ELSE "auto"
    /\ runtimeInstance = IF pendingResumeJob # None
                            THEN InstanceOrEmpty(pendingResumeJob[1].runtime_instance) ELSE ""
    /\ executionSettings = [shots |-> 8192]
    /\ shotsInput = "8192"
    /\ shotInputError = NoError
    /\ isExecuting = FALSE
    /\ isCancelling = FALSE
    /\ error = NoError
    /\ statusDetail = ""
    /\ jobStatus = IF pendingResumeJob # None
                      THEN Some(JobStatus(pendingResumeJob[1].job_id, "SUBMITTED")) ELSE None
    /\ result = None
    /\ cancelRequestedRef = FALSE
    /\ activeKnot \in knots
    /\ ops = InitialOperations(pendingResumeJob)
    /\ cancels = [c \in 1..MaxCancels |-> IdleCancel]
    /\ service = [nextJob |-> IF store # None THEN 2 ELSE 1,
                  settled |-> [j \in JobIds |-> None]]
    /\ edits = 0
    /\ invoked = FALSE
    /\ completions = [j \in JobIds |-> 0]

Init == InitWith(InitialKnots)

\* ------------------------------------------------------ the remote service
StatusText(code) == IF code = 422 THEN "422" ELSE "500"

Reply(kind, code, job_id, status, backend, signature, counts, detail) ==
    [kind |-> kind, code |-> code, job_id |-> job_id, status |-> status,
     backend |-> backend, signature |-> signature, counts |-> counts, detail |-> detail]

\* fetch rejects (no response at all), or resolves with a non-success status
FailureReplies ==
    { Reply("neterr", 0, 0, "", "", "", FALSE, "") } \cup
    { Reply("http", 422, 0, "", "", "", FALSE, "detail"),
      Reply("http", 500, 0, "", "", "", FALSE, "") }

\* /api/jobs/submit: the service assigns the next job id (or, faultily, none)
SubmitReplies ==
    FailureReplies \cup
    { Reply("json", 200, service.nextJob, "QUEUED", "ibm_marrakesh", signature, FALSE, "") :
        signature \in {"", "A", "B"} } \cup
    { Reply("json", 200, service.nextJob, "QUEUED", "", "", FALSE, ""),
      Reply("json", 200, 0, "QUEUED", "ibm_marrakesh", "", FALSE, "") }

\* /api/jobs/poll: a status record or, with counts, a full result; a job that
\* was reported terminal is reported the same way from then on
PollReplies(job_id) ==
    FailureReplies \cup
    IF service.settled[job_id] # None THEN { service.settled[job_id][1] }
    ELSE { Reply("json", 200, job_id, "RUNNING", "ibm_marrakesh", "", FALSE, ""),
           Reply("json", 200, job_id, "COMPLETED", "ibm_marrakesh", "", TRUE, ""),
           Reply("json", 200, job_id, "COMPLETED", "ibm_marrakesh", "", FALSE, "") } \cup
         { Reply("json", 200, job_id, status, "ibm_marrakesh", "", FALSE, detail) :
             status \in {"FAILED", "PAUSED"}, detail \in {"", "detail"} } \cup
         { Reply("json", 200, job_id, "CANCELED", "ibm_marrakesh", "", FALSE, "") }

\* /api/jobs/cancel
CancelReplies(job_id) ==
    FailureReplies \cup
    { Reply("json", 200, job_id, "CANCELLED", "ibm_marrakesh", "", FALSE, detail) :
        detail \in {"", "Cancellation requested."} }

\* The replies the concurrency specification draws from: one per way a handler
\* continues (a failure, an assigned job; in progress, completed, failed; a
\* cancelled record).
CoreFailureReplies == { Reply("http", 500, 0, "", "", "", FALSE, "") }
CoreSubmitReplies ==
    CoreFailureReplies \cup
    { Reply("json", 200, service.nextJob, "QUEUED", "ibm_marrakesh", "", FALSE, "") }
CorePollReplies(job_id) ==
    CoreFailureReplies \cup
    IF service.settled[job_id] # None THEN { service.settled[job_id][1] }
    ELSE { Reply("json", 200, job_id, "RUNNING", "ibm_marrakesh", "", FALSE, ""),
           Reply("json", 200, job_id, "COMPLETED", "ibm_marrakesh", "", TRUE, ""),
           Reply("json", 200, job_id, "FAILED", "ibm_marrakesh", "", FALSE, "") }
CoreCancelReplies(job_id) ==
    CoreFailureReplies \cup
    { Reply("json", 200, job_id, "CANCELLED", "ibm_marrakesh", "", FALSE, "") }

IsTerminalReply(r) ==
    r.kind = "json" /\ r.status \in FAILED_JOB_STATUSES \cup {"COMPLETED"}

\* ------------------------------------------------- shared handler fragments
HttpErrorUnclassified(r, fallbackMessage) ==
    Err("Server error", << StatusText(r.code), IF r.detail # "" THEN r.detail ELSE fallbackMessage >>)

\* readErrorDetail followed by the two throws every handler shares
HttpError(r, fallbackMessage) ==
    LET detail == IF r.detail # "" THEN r.detail ELSE fallbackMessage
    IN  IF r.code = 422 THEN Err("Request validation failed", << detail >>)
        ELSE Err("Server error", << StatusText(r.code), detail >>)

CatchErrorSurfacingCancel(thrown, shown) ==
    IF thrown = NoError THEN shown
    ELSE IF thrown = TypeError THEN Err("Could not reach the backend API.", << >>)
    ELSE thrown

\* the catch blocks of handleExecute and handleResumePendingJob: what is shown
CatchError(thrown, shown) ==
    IF thrown = NoError \/ thrown.kind = POLL_CANCELLED_ERROR THEN shown
    ELSE IF thrown = TypeError THEN Err("Could not reach the backend API.", << >>)
    ELSE thrown

isExperimentResultPayloadByDetail(payload) == payload.detail # ""

\* Array.isArray(payload.counts)
isExperimentResultPayload(payload) == payload.counts

\* The values a running handler has set so far in its current step.
Now(slot, pending, shown, detail, executing, cancelling) ==
    [store |-> slot, pendingResumeJob |-> pending, error |-> shown,
     statusDetail |-> detail, isExecuting |-> executing, isCancelling |-> cancelling]

persistPendingJobStateOnly(now, snapshot) ==
    [now EXCEPT !.pendingResumeJob = Some(snapshot)]

\* savePendingJobSnapshot(snapshot); setPendingResumeJob(snapshot)
persistPendingJob(now, snapshot) ==
    [now EXCEPT !.store = Some(snapshot), !.pendingResumeJob = Some(snapshot)]

\* clearPendingJobSnapshot(); setPendingResumeJob(null)
clearPendingJob(now) ==
    [now EXCEPT !.store = None, !.pendingResumeJob = None]

EndOperationClearingOnError(i, op, thrown, now) ==
    /\ ops' = [ops EXCEPT ![i] = [IdleOp EXCEPT !.kind = op.kind, !.pc = "done"]]
    /\ store' = IF thrown = NoError THEN now.store ELSE None
    /\ pendingResumeJob' = IF thrown = NoError THEN now.pendingResumeJob ELSE None
    /\ statusDetail' = now.statusDetail
    /\ error' = CatchError(thrown, now.error)
    /\ isExecuting' = FALSE
    /\ isCancelling' = IF op.kind = "execute" THEN FALSE ELSE now.isCancelling

\* the operation leaves its handler: catch, then finally
EndOperation(i, op, thrown, now) ==
    /\ ops' = [ops EXCEPT ![i] = [IdleOp EXCEPT !.kind = op.kind, !.pc = "done"]]
    /\ store' = now.store
    /\ pendingResumeJob' = now.pendingResumeJob
    /\ statusDetail' = now.statusDetail
    /\ error' = CatchError(thrown, now.error)
    /\ isExecuting' = FALSE
    /\ isCancelling' = IF op.kind = "execute" THEN FALSE ELSE now.isCancelling

\* the head of the for loop of pollRuntimeJob with op.attempt as the counter,
\* and the code after the loop once the attempts are used up
AttemptsLeftInclusive(attempt) == attempt <= maxPollAttempts

\* attempt < maxPollAttempts, the condition of the for loop
AttemptsLeft(attempt) == attempt < maxPollAttempts

LoopHead(i, op, flag, now) ==
    IF AttemptsLeft(op.attempt)
    THEN IF flag
         THEN EndOperation(i, op, Err(POLL_CANCELLED_ERROR, << >>), now)
         ELSE /\ ops' = [ops EXCEPT ![i] = [op EXCEPT !.pc = "poll", !.polls = @ + 1,
                                                      !.late = @ \/ op.cancelled]]
              /\ store' = now.store
              /\ pendingResumeJob' = now.pendingResumeJob
              /\ statusDetail' = now.statusDetail
              /\ error' = now.error
              /\ isExecuting' = now.isExecuting
              /\ isCancelling' = now.isCancelling
    ELSE LET timeoutSnapshot ==
                 PendingJobSnapshot(op.jobId,
                     IF op.backendNameHint # "" THEN op.backendNameHint ELSE targetBackend,
                     op.runtimeChannelForJob, InstanceOrNull(op.runtimeInstanceForJob))
         IN  EndOperation(i, op,
                 Err("Timed out waiting for the IBM runtime job to complete.", << >>),
                 [persistPendingJob(now, timeoutSnapshot)
                     EXCEPT !.statusDetail = "Saved pending job"])

\* ---------------------------------------------------------------- actions
\* cancelRequestedRef.current = false, the first statement of handleExecute
\* and of handleResumePendingJob: the value the flag has from there on
CancelRequestAtStartKept(flag) == flag

CancelRequestAtStart(flag) == FALSE

\* handleExecute up to the submit fetch
handleExecute ==
    /\ opCount < MaxOps
    /\ invoked' = TRUE
    /\ cancelRequestedRef' = CancelRequestAtStart(cancelRequestedRef)
    /\ UNCHANGED << store, pendingResumeJob, runtimeChannel, runtimeInstance, shotsInput,
                    shotInputError, jobStatus, result, activeKnot, executionSettings,
                    cancels, service, edits, completions >>
    /\ LET braidValidationError == validateBraidWordForExecution(activeKnot.braidWord)
           rejected ==
               IF ~canExecute
                   THEN Err("Generate the circuit after verification before executing the job.", << >>)
               ELSE IF shotInputError # NoError \/ shotsInput \in {"", " "}
                   THEN Err("Shots must be a whole number between 1 and 100000.", << >>)
               ELSE braidValidationError
       IN  IF rejected # NoError
           THEN /\ error' = rejected
                /\ UNCHANGED << isExecuting, isCancelling, statusDetail, ops >>
           ELSE /\ isExecuting' = TRUE
                /\ isCancelling' = FALSE
                /\ error' = NoError
                /\ statusDetail' = ""
                /\ ops' = [ops EXCEPT ![opCount + 1] =
                             [IdleOp EXCEPT !.kind = "execute", !.pc = "submit", !.submits = 1,
                                            !.runtimeChannelForJob = runtimeChannel,
                                            !.runtimeInstanceForJob = runtimeInstance,
                                            !.shots = executionSettings.shots,
                                            !.generatedSignature = activeKnot.signature]]

\* the execute button: disabled={isExecuting || !canExecute || shotInputError !== null}
ClickExecute ==
    /\ ~isExecuting /\ canExecute /\ shotInputError = NoError
    /\ handleExecute

SignatureMismatchIgnored(generatedSignature, submittedSignature) == FALSE

\* generatedSignature && submittedSignature && generatedSignature !== submittedSignature
SignatureMismatch(generatedSignature, submittedSignature) ==
    /\ generatedSignature # "" /\ submittedSignature # ""
    /\ generatedSignature # submittedSignature

ExecuteArgumentsFromInputs(op, submittedJob, channelInput, instanceInput) ==
    [op EXCEPT !.jobId = submittedJob.job_id,
               !.backendNameHint = IF submittedJob.backend # "" THEN submittedJob.backend
                                   ELSE targetBackend,
               !.runtimeChannelForJob = channelInput,
               !.runtimeInstanceForJob = instanceInput]

\* the arguments handleExecute passes to pollRuntimeJob: the job id of the
\* response, and runtimeChannel and runtimeInstance as its closure captured
\* them at the click (op.runtimeChannelForJob, op.runtimeInstanceForJob)
ExecuteArguments(op, submittedJob, channelInput, instanceInput) ==
    [op EXCEPT !.jobId = submittedJob.job_id,
               !.backendNameHint = IF submittedJob.backend # "" THEN submittedJob.backend
                                   ELSE targetBackend]

MissingJobIdentifierIgnored(submittedJob) == FALSE

\* !submittedJob.job_id
MissingJobIdentifier(submittedJob) == submittedJob.job_id = 0

\* handleExecute from the submit response to the first poll fetch
SubmitResponse(i, submittedJob) ==
    /\ ops[i].pc = "submit"
    /\ LET op == ops[i]
           generatedSignature == op.generatedSignature
           submittedSignature == submittedJob.signature
           mismatch == SignatureMismatch(generatedSignature, submittedSignature)
           thrown ==
               IF submittedJob.kind = "neterr" THEN TypeError
               ELSE IF submittedJob.kind = "http"
                   THEN HttpError(submittedJob, "Failed to submit experiment job.")
               ELSE IF mismatch
                   THEN Err("Generated circuit signature does not match submitted signature",
                            << generatedSignature, submittedSignature >>)
               ELSE IF MissingJobIdentifier(submittedJob)
                   THEN Err("The backend did not return a runtime job identifier.", << >>)
               ELSE NoError
           backend == IF submittedJob.backend # "" THEN submittedJob.backend ELSE targetBackend
           pendingSnapshot ==
               PendingJobSnapshot(submittedJob.job_id, backend, op.runtimeChannelForJob,
                                  InstanceOrNull(op.runtimeInstanceForJob))
           now == Now(store, pendingResumeJob, error, statusDetail, isExecuting, isCancelling)
       IN  /\ jobStatus' = IF submittedJob.kind = "json" /\ ~mismatch
                              THEN Some(JobStatus(submittedJob.job_id, submittedJob.status))
                              ELSE jobStatus
           /\ service' = IF submittedJob.kind = "json" /\ submittedJob.job_id # 0
                            THEN [service EXCEPT !.nextJob = @ + 1] ELSE service
           /\ IF thrown # NoError
              THEN EndOperation(i, op, thrown, now)
              ELSE LoopHead(i, ExecuteArguments(op, submittedJob, runtimeChannel, runtimeInstance),
                            cancelRequestedRef,
                            persistPendingJob(now, pendingSnapshot))
    /\ UNCHANGED << runtimeChannel, runtimeInstance, shotsInput, shotInputError, result,
                    cancelRequestedRef, activeKnot, executionSettings, cancels, edits, invoked,
                    completions >>

\* App.handleExecutionComplete, the onExecutionComplete prop
handleExecutionComplete(knot) == [knot EXCEPT !.status = "executed"]

\* the body of the /api/jobs/poll request an operation sends
PollRequest(op) ==
    [job_id |-> op.jobId,
     runtime |-> readRuntimePayload(op.runtimeChannelForJob, op.runtimeInstanceForJob)]

IsCompletedResultByStatus(pollPayload) == pollPayload.status = "COMPLETED"

\* isExperimentResultPayload(pollPayload) && pollPayload.status === 'COMPLETED'
IsCompletedResult(pollPayload) ==
    isExperimentResultPayload(pollPayload) /\ pollPayload.status = "COMPLETED"

\* pollRuntimeJob from a poll response to the sleep, or out of the handler
PollResponse(i, pollPayload) ==
    /\ ops[i].pc = "poll"
    /\ LET op == ops[i]
           now == Now(store, pendingResumeJob, error, statusDetail, isExecuting, isCancelling)
           cleared == clearPendingJob(now)
           pollDetail == pollPayload.detail
       IN  /\ service' = IF IsTerminalReply(pollPayload)
                            THEN [service EXCEPT !.settled[op.jobId] = Some(pollPayload)]
                            ELSE service
           /\ IF pollPayload.kind = "neterr"
              THEN /\ EndOperation(i, op, TypeError, now)
                   /\ UNCHANGED << jobStatus, result, activeKnot, completions >>
              ELSE IF pollPayload.kind = "http"
              THEN /\ EndOperation(i, op, HttpError(pollPayload, "Failed to poll experiment job."), now)
                   /\ UNCHANGED << jobStatus, result, activeKnot, completions >>
              ELSE IF IsCompletedResult(pollPayload)
              THEN /\ jobStatus' = Some(JobStatus(pollPayload.job_id, pollPayload.status))
                   /\ result' = Some([job_id |-> pollPayload.job_id])
                   /\ activeKnot' = handleExecutionComplete(activeKnot)
                   /\ completions' = [completions EXCEPT ![pollPayload.job_id] = @ + 1]
                   /\ EndOperation(i, op, NoError,
                                   [cleared EXCEPT !.statusDetail = ""])
              ELSE /\ jobStatus' = Some(JobStatus(pollPayload.job_id, pollPayload.status))
                   /\ UNCHANGED << result, activeKnot, completions >>
                   /\ IF pollPayload.status \in FAILED_JOB_STATUSES
                      THEN EndOperation(i, op,
                               IF pollDetail # "" THEN Err(pollDetail, << >>)
                               ELSE Err("Runtime job failed with status", << pollPayload.status >>),
                               cleared)
                      ELSE IF pollPayload.status \notin IN_PROGRESS_JOB_STATUSES
                      THEN EndOperation(i, op,
                               IF pollDetail # "" THEN Err(pollDetail, << >>)
                               ELSE Err("Unexpected runtime job status", << pollPayload.status >>),
                               cleared)
                      ELSE /\ ops' = [ops EXCEPT ![i] = [op EXCEPT !.pc = "sleep",
                                                                   !.inProgress = @ + 1]]
                           /\ UNCHANGED << store, pendingResumeJob, statusDetail, error,
                                           isExecuting, isCancelling >>
    /\ UNCHANGED << runtimeChannel, runtimeInstance, shotsInput, shotInputError,
                    cancelRequestedRef, executionSettings, cancels, edits, invoked >>

\* sleep(pollIntervalMs) expires: attempt += 1 and the loop head
SleepDone(i) ==
    /\ ops[i].pc = "sleep"
    /\ LoopHead(i, [ops[i] EXCEPT !.attempt = @ + 1], cancelRequestedRef,
                Now(store, pendingResumeJob, error, statusDetail, isExecuting, isCancelling))
    /\ UNCHANGED << runtimeChannel, runtimeInstance, shotsInput, shotInputError, jobStatus,
                    result, cancelRequestedRef, activeKnot, executionSettings, cancels, service, edits, invoked,
                    completions >>

ResumeArgumentsFromInputs(snapshot, channelInput, instanceInput) ==
    [jobId |-> snapshot.job_id,
     backendNameHint |-> snapshot.backend_name,
     runtimeChannelForJob |-> channelInput,
     runtimeInstanceForJob |-> instanceInput]

\* the arguments handleResumePendingJob passes to pollRuntimeJob
ResumeArguments(snapshot, channelInput, instanceInput) ==
    [jobId |-> snapshot.job_id,
     backendNameHint |-> snapshot.backend_name,
     runtimeChannelForJob |-> snapshot.runtime_channel,
     runtimeInstanceForJob |-> InstanceOrEmpty(snapshot.runtime_instance)]

\* handleResumePendingJob up to the first poll fetch
handleResumePendingJob ==
    /\ opCount < MaxOps
    /\ invoked' = TRUE
    /\ cancelRequestedRef' = CancelRequestAtStart(cancelRequestedRef)
    /\ IF pendingResumeJob = None
       THEN UNCHANGED << store, pendingResumeJob, runtimeChannel, runtimeInstance, isExecuting,
                         isCancelling, error, statusDetail, jobStatus, ops >>
       ELSE LET snapshot == pendingResumeJob[1]
                args == ResumeArguments(snapshot, runtimeChannel, runtimeInstance)
            IN  /\ runtimeChannel' = snapshot.runtime_channel
                /\ runtimeInstance' = InstanceOrEmpty(snapshot.runtime_instance)
                /\ jobStatus' = Some(JobStatus(snapshot.job_id, "SUBMITTED"))
                /\ LoopHead(opCount + 1,
                       [IdleOp EXCEPT !.kind = "resume", !.jobId = args.jobId,
                                      !.backendNameHint = args.backendNameHint,
                                      !.runtimeChannelForJob = args.runtimeChannelForJob,
                                      !.runtimeInstanceForJob = args.runtimeInstanceForJob,
                                      !.from = store,
                                      !.differs =
                                          readRuntimePayload(runtimeChannel, runtimeInstance) #
                                          readRuntimePayload(snapshot.runtime_channel,
                                              InstanceOrEmpty(snapshot.runtime_instance))],
                       CancelRequestAtStart(cancelRequestedRef),
                       Now(store, pendingResumeJob, NoError, "", TRUE, isCancelling))
    /\ UNCHANGED << shotsInput, shotInputError, result, activeKnot, executionSettings,
                    cancels, service, edits, completions >>

\* the resume button is rendered when hasPendingResume && !isExecuting
ClickResume ==
    /\ hasPendingResume /\ ~isExecuting
    /\ handleResumePendingJob

\* handleCancelJob up to the cancel fetch
handleCancelJob ==
    /\ cancelCount < MaxCancels
    /\ invoked' = TRUE
    /\ IF jobStatus = None \/ jobStatus[1].job_id = 0
       THEN UNCHANGED << cancelRequestedRef, isCancelling, error, statusDetail, cancels, ops >>
       ELSE LET job_id == jobStatus[1].job_id
            IN  /\ cancelRequestedRef' = TRUE
                /\ isCancelling' = TRUE
                /\ error' = NoError
                /\ statusDetail' = ""
                /\ cancels' = [cancels EXCEPT ![cancelCount + 1] =
                                 [pc |-> "wait", job_id |-> job_id,
                                  runtime |-> readRuntimePayload(runtimeChannel, runtimeInstance),
                                  ok |-> FALSE,
                                  polling |-> \E i \in 1..MaxOps :
                                                 InFlight(ops[i]) /\ ops[i].jobId = job_id,
                                  opsBefore |-> opCount]]
                /\ ops' = [i \in 1..MaxOps |->
                             IF InFlight(ops[i])
                             THEN [ops[i] EXCEPT !.cancelSeen = TRUE,
                                                 !.cancelled = @ \/ ops[i].jobId = job_id]
                             ELSE ops[i]]
    /\ UNCHANGED << store, pendingResumeJob, runtimeChannel, runtimeInstance, shotsInput,
                    shotInputError, isExecuting, jobStatus, result, activeKnot,
                    executionSettings, service, edits, completions >>

\* the cancel button is rendered when hasInFlightJob, disabled={isCancelling}
ClickCancel ==
    /\ hasInFlightJob /\ ~isCancelling
    /\ handleCancelJob

\* handleCancelJob from the cancel response to the end of its finally
CancelResponse(c, payload) ==
    /\ cancels[c].pc = "wait"
    /\ IF payload.kind = "json"
       THEN /\ jobStatus' = Some(JobStatus(payload.job_id, payload.status))
            /\ store' = None
            /\ pendingResumeJob' = None
            /\ statusDetail' = IF payload.detail # "" THEN payload.detail
                               ELSE "Cancellation requested."
            /\ error' = error
       ELSE /\ error' = IF payload.kind = "neterr"
                           THEN Err("Could not reach the backend API.", << >>)
                           ELSE HttpError(payload, "Failed to cancel experiment job.")
            /\ UNCHANGED << jobStatus, store, pendingResumeJob, statusDetail >>
    /\ isExecuting' = FALSE
    /\ isCancelling' = FALSE
    /\ cancels' = [d \in 1..MaxCancels |->
                      IF d = c
                      THEN [IdleCancel EXCEPT !.pc = "done", !.job_id = cancels[c].job_id,
                                              !.ok = payload.kind = "json",
                                              !.polling = cancels[c].polling,
                                              !.opsBefore = cancels[c].opsBefore]
                      ELSE IF cancels[d].pc = "done"
                      THEN [IdleCancel EXCEPT !.pc = "done"]
                      ELSE cancels[d]]
    /\ UNCHANGED << runtimeChannel, runtimeInstance, shotsInput, shotInputError, result,
                    cancelRequestedRef, activeKnot, executionSettings, ops, service, edits, invoked,
                    completions >>

\* handleShotsChange, and the effect on executionSettings.shots that rewrites
\* the box when the setting has changed
handleShotsChange(value) ==
    LET accepted == value \notin {"", " "} /\ IsIntegerText(value) /\ ShotsInRange(NumberOf(value))
    IN  /\ shotInputError' = IF accepted THEN NoError
                             ELSE Err("Shots must be a whole number between 1 and 100000.", << >>)
        /\ executionSettings' = IF accepted
                                THEN [executionSettings EXCEPT !.shots = NumberOf(value)]
                                ELSE executionSettings
        /\ shotsInput' = IF accepted /\ NumberOf(value) # executionSettings.shots
                         THEN StringOf(NumberOf(value)) ELSE value
        /\ UNCHANGED << store, pendingResumeJob, runtimeChannel, runtimeInstance,
                        isExecuting, isCancelling, error, statusDetail, jobStatus, result,
                        cancelRequestedRef, activeKnot, ops, cancels, service, edits, invoked,
                        completions >>

\* the runtime channel select and the runtime instance text box
SetRuntimeChannel(value) ==
    /\ edits < MaxEdits
    /\ edits' = edits + 1
    /\ value # runtimeChannel
    /\ runtimeChannel' = value
    /\ UNCHANGED << store, pendingResumeJob, runtimeInstance, shotsInput, shotInputError,
                    isExecuting, isCancelling, error, statusDetail, jobStatus, result,
                    cancelRequestedRef, activeKnot, executionSettings, ops, cancels, service, invoked,
                    completions >>

SetRuntimeInstance(value) ==
    /\ edits < MaxEdits
    /\ edits' = edits + 1
    /\ value # runtimeInstance
    /\ runtimeInstance' = value
    /\ UNCHANGED << store, pendingResumeJob, runtimeChannel, shotsInput, shotInputError,
                    isExecuting, isCancelling, error, statusDetail, jobStatus, result,
                    cancelRequestedRef, activeKnot, executionSettings, ops, cancels, service, invoked,
                    completions >>

Next ==
    \/ ClickExecute
    \/ \E i \in 1..MaxOps : \E submittedJob \in CoreSubmitReplies : SubmitResponse(i, submittedJob)
    \/ \E i \in 1..MaxOps :
          /\ ops[i].pc = "poll"
          /\ \E pollPayload \in CorePollReplies(ops[i].jobId) : PollResponse(i, pollPayload)
    \/ \E i \in 1..MaxOps : SleepDone(i)
    \/ ClickResume
    \/ ClickCancel
    \/ \E c \in 1..MaxCancels : \E payload \in CoreCancelReplies(cancels[c].job_id) : CancelResponse(c, payload)

Spec == Init /\ [][Next]_vars

\* Every request the component has issued is eventually answered or fails, and
\* every timer it has set expires.
Responsive ==
    /\ \A i \in 1..MaxOps :
          /\ WF_vars(\E submittedJob \in CoreSubmitReplies : SubmitResponse(i, submittedJob))
          /\ WF_vars(ops[i].pc = "poll"
                     /\ \E pollPayload \in CorePollReplies(ops[i].jobId) : PollResponse(i, pollPayload))
          /\ WF_vars(SleepDone(i))
    /\ \A c \in 1..MaxCancels :
          WF_vars(\E payload \in CoreCancelReplies(cancels[c].job_id) : CancelResponse(c, payload))

\* The same controller with a user who also edits the runtime inputs and who
\* starts an operation only after the previous one has left its handler.
Quiescent == \A i \in 1..MaxOps : ~InFlight(ops[i])

NextInputs ==
    \/ Quiescent /\ ClickExecute
    \/ \E i \in 1..MaxOps : \E submittedJob \in CoreSubmitReplies : SubmitResponse(i, submittedJob)
    \/ \E i \in 1..MaxOps :
          /\ ops[i].pc = "poll"
          /\ \E pollPayload \in CorePollReplies(ops[i].jobId) : PollResponse(i, pollPayload)
    \/ \E i \in 1..MaxOps : SleepDone(i)
    \/ Quiescent /\ ClickResume
    \/ ClickCancel
    \/ \E c \in 1..MaxCancels : \E payload \in CoreCancelReplies(cancels[c].job_id) : CancelResponse(c, payload)
    \/ \E value \in Channels : SetRuntimeChannel(value)
    \/ \E value \in Instances : SetRuntimeInstance(value)

SpecInputs == Init /\ [][NextInputs]_vars

\* The controller with a user who starts an operation only after the previous
\* one has left its handler (and cancels whenever the button allows), against
\* a service and timers that always answer.
NextLive ==
    \/ Quiescent /\ ClickExecute
    \/ \E i \in 1..MaxOps : \E submittedJob \in CoreSubmitReplies : SubmitResponse(i, submittedJob)
    \/ \E i \in 1..MaxOps :
          /\ ops[i].pc = "poll"
          /\ \E pollPayload \in CorePollReplies(ops[i].jobId) : PollResponse(i, pollPayload)
    \/ \E i \in 1..MaxOps : SleepDone(i)
    \/ Quiescent /\ ClickResume
    \/ ClickCancel
    \/ \E c \in 1..MaxCancels : \E payload \in CoreCancelReplies(cancels[c].job_id) : CancelResponse(c, payload)

SpecLive == Init /\ [][NextLive]_vars /\ Responsive

\* The same user and service with the component mounted on a knot at any step
\* of the pipeline: a knot has a circuit signature once it was compiled.
KnotsOfAnyStatus ==
    { [status |-> status, braidWord |-> << "s1", "s2^-1", "s1" >>,
       signature |-> IF status \in {"pending", "verified"} THEN "" ELSE "A"]
        : status \in {"pending", "verified", "compiled", "executed"} }

InitKnots == InitWith(KnotsOfAnyStatus)

SpecKnots == InitKnots /\ [][NextLive]_vars

\* The controller mounted with any knot of the circuit step (a braid word the
\* validator accepts or rejects, its circuit signature known) against
\* a service that answers in every way the handlers distinguish, with a user
\* who starts an operation only after the previous one has left its handler.
Knots ==
    { [status |-> "compiled", braidWord |-> braidWord, signature |-> "A"]
        : braidWord \in { << "s1", "s2^-1", "s1" >>,
                          << >>, << "s1", "x", "s2" >>, << "s1", "s2" >>,
                          << "s1", "s1", "s1" >>, << "s1", "s3", "s1" >> } }

InitReplies == InitWith(Knots)

NextReplies ==
    \/ Quiescent /\ ClickExecute
    \/ \E i \in 1..MaxOps : \E submittedJob \in SubmitReplies : SubmitResponse(i, submittedJob)
    \/ \E i \in 1..MaxOps :
          /\ ops[i].pc = "poll"
          /\ \E pollPayload \in PollReplies(ops[i].jobId) : PollResponse(i, pollPayload)
    \/ \E i \in 1..MaxOps : SleepDone(i)
    \/ Quiescent /\ ClickResume
    \/ ClickCancel
    \/ \E c \in 1..MaxCancels : \E payload \in CancelReplies(cancels[c].job_id) : CancelResponse(c, payload)

SpecReplies == InitReplies /\ [][NextReplies]_vars

\* The controller on a compiled knot (its braid word accepted by the
\* validator, or not) against a service whose every request
\* can fail in each of the three ways (no response, 422, another status) and
\* whose submit response can lack the job identifier or the device name.
FaultKnots ==
    { [status |-> "compiled", braidWord |-> braidWord, signature |-> "A"]
        : braidWord \in { << "s1", "s2^-1", "s1" >>, << "s1", "s3", "s1" >> } }

InitFaults == InitWith(FaultKnots)

NextFaults ==
    \/ Quiescent /\ ClickExecute
    \/ \E i \in 1..MaxOps : \E submittedJob \in SubmitReplies : SubmitResponse(i, submittedJob)
    \/ \E i \in 1..MaxOps :
          /\ ops[i].pc = "poll"
          /\ \E pollPayload \in FailureReplies \cup CorePollReplies(ops[i].jobId) :
                PollResponse(i, pollPayload)
    \/ \E i \in 1..MaxOps : SleepDone(i)
    \/ Quiescent /\ ClickResume
    \/ ClickCancel
    \/ \E c \in 1..MaxCancels : \E payload \in CancelReplies(cancels[c].job_id) : CancelResponse(c, payload)

SpecFaults == InitFaults /\ [][NextFaults]_vars

\* The controller with a user who types into the shots box at any time and
\* submits; submitted jobs are polled to their end.
NextShots ==
    \/ \E value \in ShotTexts : handleShotsChange(value)
    \/ Quiescent /\ ClickExecute
    \/ \E i \in 1..MaxOps : \E submittedJob \in CoreSubmitReplies : SubmitResponse(i, submittedJob)
    \/ \E i \in 1..MaxOps :
          /\ ops[i].pc = "poll"
          /\ \E pollPayload \in CorePollReplies(ops[i].jobId) : PollResponse(i, pollPayload)
    \/ \E i \in 1..MaxOps : SleepDone(i)

SpecShots == Init /\ [][NextShots]_vars

\* localStorage belongs to the origin: another page of it, or the user, can
\* put any text under the key
StorageWrite(stored) ==
    /\ store' = Some(stored)
    /\ UNCHANGED << pendingResumeJob, runtimeChannel, runtimeInstance, shotsInput, shotInputError,
                    isExecuting, isCancelling, error, statusDetail, jobStatus, result,
                    cancelRequestedRef, activeKnot, executionSettings, ops, cancels, service,
                    edits, invoked, completions >>

\* The page is loaded again: the component is constructed anew (the useState
\* initialisers of lines 263-289 on the slot as it is), and what the previous
\* page had in flight is gone.
Reload ==
    /\ store' = StoredAfterLoad(store)
    /\ pendingResumeJob' = loadPendingJobSnapshot(store)
    /\ runtimeChannel' = IF pendingResumeJob' # None THEN pendingResumeJob'[1].runtime_channel ELSE "auto"
    /\ runtimeInstance' = IF pendingResumeJob' # None
                             THEN InstanceOrEmpty(pendingResumeJob'[1].runtime_instance) ELSE ""
    /\ shotsInput' = "8192"
    /\ shotInputError' = NoError
    /\ isExecuting' = FALSE
    /\ isCancelling' = FALSE
    /\ error' = NoError
    /\ statusDetail' = ""
    /\ jobStatus' = IF pendingResumeJob' # None
                       THEN Some(JobStatus(pendingResumeJob'[1].job_id, "SUBMITTED")) ELSE None
    /\ result' = None
    /\ cancelRequestedRef' = FALSE
    /\ ops' = InitialOperations(pendingResumeJob')
    /\ cancels' = [c \in 1..MaxCancels |-> IdleCancel]
    /\ invoked' = FALSE
    /\ UNCHANGED << activeKnot, executionSettings, service, edits, completions >>

\* The snapshot store under every text the slot can hold: pages are loaded,
\* and the slot is written from outside between the loads.
NextLoad ==
    \/ \E stored \in StoredValues : StorageWrite(stored)
    \/ Reload

SpecLoad == Init /\ [][NextLoad]_vars

\* The validator as handleExecute applies it: the component is mounted on a
\* compiled knot with any braid word of up to MaxTokens tokens, and the user
\* clicks execute.
BraidWords == UNION { [1..n -> BraidTokens] : n \in 0..MaxTokens }

InitValidator ==
    InitWith({ [status |-> "compiled", braidWord |-> braidWord, signature |-> "A"]
                 : braidWord \in BraidWords })

NextValidator == ClickExecute

SpecValidator == InitValidator /\ [][NextValidator]_vars

\* ------------------------------------------------------------- the claims
TimedOut == Err("Timed out waiting for the IBM runtime job to complete.", << >>)
CompletedResult(job_id) == Reply("json", 200, job_id, "COMPLETED", "ibm_marrakesh", "", TRUE, "")

\* operation i leaves its handler in this step
Ends(i) == InFlight(ops[i]) /\ ops'[i].pc = "done"

\* onExecutionComplete calls made for a job
FiredFor(job_id) == completions[job_id]

\* C1: a submit whose every poll is answered with an in-progress status, with
\* no cancel invoked meanwhile, ends only at the loop head after exactly
\* maxPollAttempts polls (1 submit + N polls), with the timed-out error shown
\* and a snapshot of its job in the slot.
C1_TimeoutAfterNPolls ==
    [][\A i \in 1..MaxOps :
          ( /\ Ends(i)
            /\ ops[i].kind = "execute"
            /\ ops[i].jobId # 0
            /\ ~ops[i].cancelSeen
            /\ ops[i].inProgress = ops[i].polls )
          => ( /\ ops[i].submits + ops[i].polls = maxPollAttempts + 1
               /\ ops[i].submits = 1
               /\ error' = TimedOut
               /\ store' # None
               /\ store'[1].job_id = ops[i].jobId )]_vars

C1_Witness ==
    /\ opCount = 1 /\ cancelCount = 0
    /\ ops[1].kind = "execute" /\ ops[1].pc = "done"
    /\ error = TimedOut
    /\ statusDetail = "Saved pending job"
    /\ store # None /\ store[1].job_id + 1 = service.nextJob

\* C2: when the k-th poll of a submit is answered with the completed result
\* after k-1 in-progress answers, the operation ends there (k polls issued, no
\* further one), onExecutionComplete is called once and the snapshot is cleared.
C2_CompletedAfterKPolls ==
    [][\A i \in 1..MaxOps :
          ( /\ ops[i].kind = "execute"
            /\ ops[i].pc = "poll"
            /\ CompletedResult(ops[i].jobId) \in CorePollReplies(ops[i].jobId)
            /\ PollResponse(i, CompletedResult(ops[i].jobId)) )
          => ( /\ ops'[i].pc = "done"
               /\ ops[i].polls = ops[i].inProgress + 1
               /\ completions' = [completions EXCEPT ![ops[i].jobId] = @ + 1]
               /\ result' = Some([job_id |-> ops[i].jobId])
               /\ store' = None
               /\ pendingResumeJob' = None )]_vars

C2_Witness ==
    /\ opCount = 1 /\ cancelCount = 0
    /\ ops[1].kind = "execute" /\ ops[1].pc = "done"
    /\ \E job_id \in JobIds :
          /\ completions = [j \in JobIds |-> IF j = job_id THEN 1 ELSE 0]
          /\ jobStatus = Some(JobStatus(job_id, "COMPLETED"))
          /\ result = Some([job_id |-> job_id])
    /\ store = None /\ pendingResumeJob = None
    /\ error = NoError

\* C3: once a cancel of its job has been invoked, a poll loop issues no new
\* poll request.
C3_NoPollAfterCancel == \A i \in 1..MaxOps : ~ops[i].late

\* C4: once a cancel whose remote call succeeded and every poll loop of the
\* cancelled job have finished, the slot holds no snapshot of that job.
C4_SnapshotClearedAfterCancel ==
    \A c \in 1..MaxCancels :
        ( /\ cancels[c].pc = "done" /\ cancels[c].ok /\ cancels[c].polling
          /\ \A i \in 1..MaxOps : InFlight(ops[i]) => ops[i].jobId # cancels[c].job_id )
        => ~(store # None /\ store[1].job_id = cancels[c].job_id)

\* C5: after a cancel of a polled job whose remote call succeeded, with no
\* operation started since, the controller idle and the service never having
\* reported another terminal status for the job, the job status shown is the
\* cancellation response.
C5_CancelledStatusShown ==
    \A c \in 1..MaxCancels :
        ( /\ cancels[c].pc = "done" /\ cancels[c].ok /\ cancels[c].polling
          /\ service.settled[cancels[c].job_id] = None
          /\ cancelCount = c
          /\ opCount = cancels[c].opsBefore
          /\ \A i \in 1..MaxOps : ~InFlight(ops[i]) )
        => jobStatus = Some(JobStatus(cancels[c].job_id, "CANCELLED"))

\* C6: no submit request is outstanding while an operation started earlier is
\* still submitting or polling.
C6_SingleInFlight ==
    \A i, j \in 1..MaxOps :
        (i < j /\ ops[j].kind = "execute" /\ ops[j].pc = "submit") => ~InFlight(ops[i])

\* C7: at most one poll request is outstanding for a job id.
C7_OneOutstandingPoll ==
    \A i, j \in 1..MaxOps :
        (i # j /\ ops[i].pc = "poll" /\ ops[j].pc = "poll") => ops[i].jobId # ops[j].jobId

\* C8: onExecutionComplete is called exactly once for a job whose completed
\* result was delivered and never for another job.
C8_CompletionFiresOnce ==
    \A job_id \in JobIds :
        FiredFor(job_id) =
            IF service.settled[job_id] = Some(CompletedResult(job_id)) THEN 1 ELSE 0

\* C9: a resume issues no submit request, its poll requests carry the job id,
\* runtime channel and runtime instance of the snapshot that was in the slot,
\* whatever the runtime inputs show, and the completed result clears the slot.
C9_ResumeUsesSnapshot ==
    [][\A i \in 1..MaxOps :
          /\ (ops'[i].kind = "resume" /\ InFlight(ops'[i]))
             => ( /\ ops'[i].submits = 0
                  /\ ops'[i].pc # "submit"
                  /\ ops'[i].from # None
                  /\ PollRequest(ops'[i]) =
                       [job_id |-> ops'[i].from[1].job_id,
                        runtime |-> readRuntimePayload(ops'[i].from[1].runtime_channel,
                                        InstanceOrEmpty(ops'[i].from[1].runtime_instance))] )
          /\ ( /\ ops[i].kind = "resume"
               /\ ops[i].pc = "poll"
               /\ CompletedResult(ops[i].jobId) \in CorePollReplies(ops[i].jobId)
               /\ PollResponse(i, CompletedResult(ops[i].jobId)) )
             => (store' = None /\ pendingResumeJob' = None)]_vars

C9_Witness ==
    \E i \in 1..MaxOps :
        /\ ops[i].kind = "resume" /\ ops[i].pc = "poll" /\ ops[i].differs
        /\ PollRequest(ops[i]).runtime.runtime_channel = ops[i].from[1].runtime_channel

\* C10: until one of the operations is invoked no request has been issued, and
\* a snapshot found in the slot is offered for resuming.
C10_NoAutoResume ==
    ~invoked =>
        /\ \A i \in 1..MaxOps : ops[i] = IdleOp
        /\ \A c \in 1..MaxCancels : cancels[c] = IdleCancel
        /\ store # None => (pendingResumeJob = store /\ hasPendingResume /\ ~isExecuting)

C10_Witness ==
    /\ ~invoked
    /\ store # None
    /\ edits > 0

\* C11: in the step in which a submit issues the first poll request for the
\* job the service returned, the slot (and the pendingResumeJob state) already
\* holds the snapshot carrying that job id.
C11_SnapshotBeforeFirstPoll ==
    [][\A i \in 1..MaxOps :
          (ops[i].pc = "submit" /\ ops'[i].pc = "poll")
          => ( /\ ops'[i].polls = 1
               /\ store' # None
               /\ store'[1].job_id = ops'[i].jobId
               /\ pendingResumeJob' = store' )]_vars

C11_Witness ==
    \E i \in 1..MaxOps :
        /\ ops[i].kind = "execute" /\ ops[i].pc = "poll" /\ ops[i].polls = 1
        /\ store # None /\ store[1].job_id = ops[i].jobId

\* C12: a submit response that echoes a signature different from the known
\* signature of the generated circuit ends the submit in that step with the
\* signature-mismatch error: no poll request was or will be issued by it, and
\* neither the slot nor the job status shown is touched.
C12_SignatureMismatchFailsBeforePoll ==
    [][\A i \in 1..MaxOps : \A submittedJob \in SubmitReplies :
          ( /\ ops[i].pc = "submit"
            /\ submittedJob.kind = "json"
            /\ ops[i].generatedSignature # ""
            /\ submittedJob.signature # ""
            /\ ops[i].generatedSignature # submittedJob.signature
            /\ SubmitResponse(i, submittedJob) )
          => ( /\ ops[i].polls = 0
               /\ ops'[i].pc = "done"
               /\ error' = Err("Generated circuit signature does not match submitted signature",
                               << ops[i].generatedSignature, submittedJob.signature >>)
               /\ store' = store
               /\ jobStatus' = jobStatus )]_vars

C12_Witness ==
    /\ opCount = 1 /\ ops[1].kind = "execute" /\ ops[1].pc = "done"
    /\ error = Err("Generated circuit signature does not match submitted signature", << "A", "B" >>)
    /\ activeKnot.signature = "A"
    /\ store = None /\ jobStatus = None

\* C13: the stored result changes only in a step in which a poll loop receives
\* the completed result of its job (status COMPLETED with counts), and then it
\* becomes that result; every other step (a rejected or failed submit, a
\* failed poll, a job failure, a timeout, a cancel) leaves it as it was.
C13_ResultKeptUntilNextSuccess ==
    [][result' # result =>
          \E i \in 1..MaxOps :
              /\ ops[i].pc = "poll" /\ ops'[i].pc = "done"
              /\ service'.settled[ops[i].jobId] # None
              /\ LET pollPayload == service'.settled[ops[i].jobId][1]
                 IN  /\ pollPayload.status = "COMPLETED" /\ pollPayload.counts
                     /\ result' = Some([job_id |-> pollPayload.job_id])]_vars

C13_Witness ==
    /\ result # None
    /\ visibleError # NoError
    /\ \A i \in 1..MaxOps : ~InFlight(ops[i])
    /\ opCount = 2

\* C14: when, no cancel having been invoked, the poll request of an
\* operation gets no response or a non-success response, the operation ends in that
\* step with the connectivity / request-validation / server error shown and
\* the snapshot of its job still in the slot and offered for resuming; the
\* same holds when the loop uses up its attempts.
C14_SnapshotKeptOnPollFailure ==
    [][\A i \in 1..MaxOps :
          /\ \A pollPayload \in FailureReplies :
                ( /\ ops[i].pc = "poll" /\ cancelCount = 0
                  /\ PollResponse(i, pollPayload) )
                => ( /\ ops'[i].pc = "done"
                     /\ error' = IF pollPayload.kind = "neterr"
                                    THEN Err("Could not reach the backend API.", << >>)
                                    ELSE HttpError(pollPayload, "Failed to poll experiment job.")
                     /\ store' # None
                     /\ store'[1].job_id = ops[i].jobId
                     /\ pendingResumeJob' = store' )
          /\ ( /\ ops[i].pc = "sleep"
               /\ ~AttemptsLeft(ops[i].attempt + 1)
               /\ SleepDone(i) )
             => ( /\ ops'[i].pc = "done"
                  /\ error' = TimedOut
                  /\ store' # None
                  /\ store'[1].job_id = ops[i].jobId
                  /\ pendingResumeJob' = store' )]_vars

C14_Witness ==
    /\ opCount = 1 /\ cancelCount = 0
    /\ ops[1].kind = "execute" /\ ops[1].pc = "done"
    /\ error = Err("Could not reach the backend API.", << >>)
    /\ store # None /\ hasPendingResume
    /\ jobStatus = Some(JobStatus(store[1].job_id, "QUEUED"))

\* C15: a poll loop that finds cancelRequestedRef raised at the head of an
\* iteration leaves its handler in that step, issuing no poll request; the
\* error shown, the status detail and the slot stay what they were (after a
\* submit response: what handleExecute persisted before entering the loop).
C15_LocalCancelIsSilent ==
    [][\A i \in 1..MaxOps :
          /\ ( /\ ops[i].pc = "sleep"
               /\ cancelRequestedRef
               /\ AttemptsLeft(ops[i].attempt + 1)
               /\ SleepDone(i) )
             => ( /\ ops'[i].pc = "done"
                  /\ error' = error
                  /\ statusDetail' = statusDetail
                  /\ store' = store
                  /\ pendingResumeJob' = pendingResumeJob )
          /\ \A submittedJob \in CoreSubmitReplies \cup SubmitReplies :
                ( /\ ops[i].pc = "submit"
                  /\ cancelRequestedRef
                  /\ submittedJob.kind = "json" /\ submittedJob.job_id # 0
                  /\ ~SignatureMismatch(ops[i].generatedSignature, submittedJob.signature)
                  /\ SubmitResponse(i, submittedJob) )
                => ( /\ ops'[i].pc = "done"
                     /\ error' = error
                     /\ statusDetail' = statusDetail
                     /\ store' # None
                     /\ store'[1].job_id = submittedJob.job_id
                     /\ pendingResumeJob' = store' )]_vars

C15_Witness ==
    /\ opCount = 1 /\ ops[1].pc = "done"
    /\ cancelRequestedRef
    /\ cancels[1].pc = "done" /\ cancels[1].ok /\ cancels[1].polling
    /\ error = NoError /\ result = None
    /\ store = None
    /\ ~isExecuting

\* C16: a poll response with a status of FAILED_JOB_STATUSES ends the
\* operation in that step: the status is shown, the error is the detail of
\* the response if it has one and the job-failed-with-status message
\* otherwise, the slot and pendingResumeJob are cleared, and neither
\* onExecutionComplete is called nor the stored result changed.
C16_FailedStatusStopsAndClears ==
    [][\A i \in 1..MaxOps :
          ops[i].pc = "poll" =>
              \A pollPayload \in PollReplies(ops[i].jobId) :
                  ( /\ pollPayload.kind = "json"
                    /\ pollPayload.status \in {"FAILED", "ERROR", "CANCELLED", "CANCELED"}
                    /\ PollResponse(i, pollPayload) )
                  => ( /\ ops'[i].pc = "done"
                       /\ jobStatus' = Some(JobStatus(pollPayload.job_id, pollPayload.status))
                       /\ error' = IF pollPayload.detail # ""
                                      THEN Err(pollPayload.detail, << >>)
                                      ELSE Err("Runtime job failed with status",
                                               << pollPayload.status >>)
                       /\ store' = None
                       /\ pendingResumeJob' = None
                       /\ completions' = completions
                       /\ result' = result )]_vars

C16_Witness ==
    /\ opCount = 1 /\ ops[1].kind = "execute" /\ ops[1].pc = "done"
    /\ error = Err("Runtime job failed with status", << "CANCELED" >>)
    /\ jobStatus # None /\ jobStatus[1].status = "CANCELED"
    /\ store = None /\ ~hasPendingResume
    /\ \A j \in JobIds : completions[j] = 0

\* C17 (as claimed): a poll response whose status is in none of the three
\* status sets ends the operation in that step with the unexpected-status
\* error, clears the slot and is followed by no further poll of the loop.
C17_UnexpectedStatusIsHardFailure ==
    [][\A i \in 1..MaxOps :
          ops[i].pc = "poll" =>
              \A pollPayload \in PollReplies(ops[i].jobId) :
                  ( /\ pollPayload.kind = "json"
                    /\ pollPayload.status \notin
                          {"INITIALIZING", "QUEUED", "RUNNING", "VALIDATING", "SUBMITTED",
                           "FAILED", "ERROR", "CANCELLED", "CANCELED", "COMPLETED"}
                    /\ PollResponse(i, pollPayload) )
                  => ( /\ ops'[i].pc = "done"
                       /\ error' = Err("Unexpected runtime job status", << pollPayload.status >>)
                       /\ store' = None
                       /\ pendingResumeJob' = None )]_vars

\* C17 (amended): such a response ends the operation in that step, clears the
\* slot and is followed by no further poll; the error raised is the detail of
\* the response if it has one and the unexpected-status message otherwise.
C17_UnexpectedStatusStopsAndClears ==
    [][\A i \in 1..MaxOps :
          ops[i].pc = "poll" =>
              \A pollPayload \in PollReplies(ops[i].jobId) :
                  ( /\ pollPayload.kind = "json"
                    /\ pollPayload.status \notin
                          {"INITIALIZING", "QUEUED", "RUNNING", "VALIDATING", "SUBMITTED",
                           "FAILED", "ERROR", "CANCELLED", "CANCELED", "COMPLETED"}
                    /\ PollResponse(i, pollPayload) )
                  => ( /\ ops'[i].pc = "done"
                       /\ jobStatus' = Some(JobStatus(pollPayload.job_id, pollPayload.status))
                       /\ error' = IF pollPayload.detail # ""
                                      THEN Err(pollPayload.detail, << >>)
                                      ELSE Err("Unexpected runtime job status",
                                               << pollPayload.status >>)
                       /\ store' = None
                       /\ pendingResumeJob' = None
                       /\ completions' = completions
                       /\ result' = result )]_vars

C17_Witness ==
    /\ opCount = 1 /\ ops[1].pc = "done"
    /\ jobStatus # None /\ jobStatus[1].status = "PAUSED"
    /\ error = Err("detail", << >>)
    /\ store = None /\ ~hasPendingResume

\* C18: when a loop, started by a submit or by a resume, uses up its attempts,
\* the snapshot it leaves in the slot names the job it polled and the backend
\* it was told, and the arguments a resume derives from that snapshot produce
\* the same poll request (job id, runtime channel, runtime instance) as the
\* loop was sending.
C18_TimeoutSnapshotRoundTrip ==
    [][\A i \in 1..MaxOps :
          ( /\ ops[i].pc = "sleep"
            /\ ~AttemptsLeft(ops[i].attempt + 1)
            /\ SleepDone(i) )
          => ( /\ store' # None
               /\ pendingResumeJob' = store'
               /\ store'[1].job_id = ops[i].jobId
               /\ store'[1].backend_name = ops[i].backendNameHint
               /\ PollRequest(ResumeArguments(store'[1], runtimeChannel', runtimeInstance'))
                     = PollRequest(ops[i]) )]_vars

C18_Witness ==
    /\ opCount = 1 /\ ops[1].kind = "execute" /\ ops[1].pc = "done"
    /\ error = TimedOut
    /\ store # None
    /\ store[1].runtime_channel = "auto" /\ store[1].runtime_instance = "hub"
    /\ runtimeInstance = "hub "

\* C19: a cancel request that is outstanding was issued for a job that an
\* operation in flight was polling when the cancel was invoked.
C19_CancelTargetsInFlightJob ==
    \A c \in 1..MaxCancels : cancels[c].pc = "wait" => cancels[c].polling

\* the structural rules a program text must meet, as a predicate on its tokens:
\* non-blank, every token a generator or an inverted generator, at least three
\* tokens, at least two distinct generators, no generator missing below the
\* largest one
BreaksStructuralRules(tokens) ==
    LET generators == { BRAID_TOKEN_REGEX(tokens[k]) : k \in 1..Len(tokens) }
    IN  \/ tokens = << >>
        \/ 0 \in generators
        \/ Len(tokens) < 3
        \/ Cardinality(generators) < 2
        \/ \E g \in 1..SetMax(generators) : g \notin generators

BraidValidationMessages ==
    { "Braid word is required before execution.",
      "Unsupported braid token",
      "Braid word must contain at least three generators before execution.",
      "Braid word must include at least two distinct generators before execution.",
      "Braid word must use contiguous generators" }

\* C20: an execute click on a knot whose braid word breaks a structural rule
\* (with the circuit generated and a valid shot count) shows one of the
\* validator's messages and starts nothing: no operation, no request, the
\* service and the snapshot untouched; and no submit is ever in flight for
\* such a knot.
C20_InvalidBraidWordSendsNothing ==
    [][ /\ ( /\ BreaksStructuralRules(activeKnot.braidWord)
             /\ shotsInput \notin {"", " "}
             /\ ClickExecute )
           => ( /\ error'.kind \in BraidValidationMessages
                /\ ops' = ops /\ cancels' = cancels
                /\ service' = service
                /\ isExecuting' = isExecuting
                /\ store' = store /\ pendingResumeJob' = pendingResumeJob )
        /\ \A i \in 1..MaxOps :
              ops'[i].kind = "execute" => ~BreaksStructuralRules(activeKnot.braidWord) ]_vars

C20_Witness ==
    /\ invoked
    /\ activeKnot.braidWord = << "s1", "s3", "s1" >>
    /\ BreaksStructuralRules(activeKnot.braidWord)
    /\ error = Err("Braid word must use contiguous generators", << "s3", "s2" >>)
    /\ opCount = 0 /\ cancelCount = 0
    /\ ~isExecuting

\* the generator indices a braid word references (0 stands for a token of
\* another shape) and the indices below the largest one it leaves out
Referenced(tokens) == { BRAID_TOKEN_REGEX(tokens[k]) : k \in 1..Len(tokens) } \ {0}
MissingIndices(tokens) ==
    IF Referenced(tokens) = {} THEN {}
    ELSE { g \in 1..SetMax(Referenced(tokens)) : g \notin Referenced(tokens) }
AllSupported(tokens) == \A k \in 1..Len(tokens) : BRAID_TOKEN_REGEX(tokens[k]) # 0

\* the error names exactly the given indices after the largest generator
NamesMissing(e, missing) ==
    /\ e.kind = "Braid word must use contiguous generators"
    /\ Len(e.args) = 1 + Cardinality(missing)
    /\ { e.args[k] : k \in 2..Len(e.args) } = { GeneratorName(g) : g \in missing }

\* C21 as stated: an execute click on any braid word that leaves out an index
\* below its largest generator is rejected with an error naming every index
\* left out.
C21_MissingIndexAlwaysNamed ==
    [][ ( /\ MissingIndices(activeKnot.braidWord) # {}
          /\ ClickExecute )
        => ( /\ ops' = ops
             /\ NamesMissing(error', MissingIndices(activeKnot.braidWord)) ) ]_vars

\* C21 amended: an execute click on a braid word of at least three tokens, all
\* of a supported shape, with at least two distinct generators, that leaves
\* out an index below its largest generator is rejected with an error naming
\* every index left out; when an earlier rule fails the click is rejected too.
C21_MissingIndexNamedAfterEarlierRules ==
    [][ ( /\ MissingIndices(activeKnot.braidWord) # {}
          /\ ClickExecute )
        => ( /\ ops' = ops
             /\ error' # NoError
             /\ ( /\ AllSupported(activeKnot.braidWord)
                  /\ Len(activeKnot.braidWord) >= 3
                  /\ Cardinality(Referenced(activeKnot.braidWord)) >= 2 )
                => NamesMissing(error', MissingIndices(activeKnot.braidWord)) ) ]_vars

C21_Witness ==
    /\ invoked
    /\ activeKnot.braidWord = << "s1", "s4^-1", "s1" >>
    /\ MissingIndices(activeKnot.braidWord) = {2, 3}
    /\ error = Err("Braid word must use contiguous generators", << "s4", "s2", "s3" >>)
    /\ opCount = 0

\* C22: an execute click on a braid word of fewer than three tokens, or
\* referencing fewer than two distinct generators, is rejected with one of
\* the validator's messages and starts no operation, whether or not the
\* generators it references are contiguous.
C22_ShortOrSingleGeneratorRejected ==
    [][ ( /\ \/ Len(activeKnot.braidWord) < 3
             \/ Cardinality(Referenced(activeKnot.braidWord)) < 2
          /\ ClickExecute )
        => ( /\ error'.kind \in BraidValidationMessages
             /\ ops' = ops
             /\ ~isExecuting' ) ]_vars

\* two tokens over the contiguous generators s1, s2
C22_Witness ==
    /\ invoked
    /\ activeKnot.braidWord = << "s1", "s2^-1" >>
    /\ MissingIndices(activeKnot.braidWord) = {}
    /\ error = Err("Braid word must contain at least three generators before execution.", << >>)
    /\ opCount = 0

\* the rule of the five that a braid word breaks first, 0 when it breaks none
FirstBrokenRule(tokens) ==
    IF tokens = << >> THEN 1
    ELSE IF ~AllSupported(tokens) THEN 2
    ELSE IF Len(tokens) < 3 THEN 3
    ELSE IF Cardinality(Referenced(tokens)) < 2 THEN 4
    ELSE IF MissingIndices(tokens) # {} THEN 5
    ELSE 0

\* C23: an execute click reports the first rule the braid word breaks: blank
\* text, then the leftmost token of another shape (named in the message), then
\* fewer than three tokens, then fewer than two distinct generators, then the
\* indices left out below the largest generator; it starts the submit, with no
\* error shown, exactly when the word breaks none of the five.
C23_FirstFailingRuleReported ==
    [][ ClickExecute =>
        LET tokens == activeKnot.braidWord
            rule == FirstBrokenRule(tokens)
        IN  /\ rule = 1 => error' = Err("Braid word is required before execution.", << >>)
            /\ rule = 2 =>
                 \E k \in 1..Len(tokens) :
                    /\ BRAID_TOKEN_REGEX(tokens[k]) = 0
                    /\ \A j \in 1..(k - 1) : BRAID_TOKEN_REGEX(tokens[j]) # 0
                    /\ error' = Err("Unsupported braid token", << tokens[k] >>)
            /\ rule = 3 =>
                 error' = Err("Braid word must contain at least three generators before execution.", << >>)
            /\ rule = 4 =>
                 error' = Err("Braid word must include at least two distinct generators before execution.", << >>)
            /\ rule = 5 => NamesMissing(error', MissingIndices(tokens))
            /\ rule # 0 => ops' = ops
            /\ (rule = 0) <=> (error' = NoError /\ ops'[opCount + 1].pc = "submit") ]_vars

\* a word that breaks rules 2, 3 and 4 at once, with two tokens of another shape
C23_Witness ==
    /\ invoked
    /\ activeKnot.braidWord = << "s0", "x" >>
    /\ error = Err("Unsupported braid token", << "s0" >>)
    /\ opCount = 0

\* C24: a submit answered with a success status and a body without a job
\* identifier ends the operation there: the missing-identifier error is shown,
\* the controller is no longer executing, the slot and the pending snapshot
\* are what they were, and no poll request has been issued.
C24_MissingJobIdIsHardError ==
    [][\A i \in 1..MaxOps : \A submittedJob \in SubmitReplies :
          ( /\ submittedJob.kind = "json" /\ submittedJob.job_id = 0
            /\ SubmitResponse(i, submittedJob) )
          => ( /\ ops'[i].pc = "done"
               /\ ops[i].polls = 0
               /\ error' = Err("The backend did not return a runtime job identifier.", << >>)
               /\ store' = store
               /\ pendingResumeJob' = pendingResumeJob
               /\ ~isExecuting' )]_vars

C24_Witness ==
    /\ opCount = 1 /\ ops[1].kind = "execute" /\ ops[1].pc = "done"
    /\ error = Err("The backend did not return a runtime job identifier.", << >>)
    /\ jobStatus = Some(JobStatus(0, "QUEUED"))
    /\ store = None /\ pendingResumeJob = None
    /\ ~isExecuting

\* what a failed request must surface: no response at all, status 422, or
\* another non-success status, with the server's detail (or, the body having
\* none, the handler's own wording) as the text
Classified(r, fallbackMessage) ==
    LET detail == IF r.detail # "" THEN r.detail ELSE fallbackMessage
    IN  IF r.kind = "neterr" THEN Err("Could not reach the backend API.", << >>)
        ELSE IF r.code = 422 THEN Err("Request validation failed", << detail >>)
        ELSE Err("Server error", << StatusText(r.code), detail >>)

\* C25: a submit, poll or cancel request that fails (no response, 422, or
\* another non-success status) makes the handler that awaited it leave with
\* the error of that class shown, and isExecuting false.
C25_FailuresClassifiedByStatus ==
    [][\A r \in FailureReplies :
          /\ \A i \in 1..MaxOps :
                /\ SubmitResponse(i, r)
                   => ( /\ error' = Classified(r, "Failed to submit experiment job.")
                        /\ ops'[i].pc = "done" /\ ~isExecuting' )
                /\ PollResponse(i, r)
                   => ( /\ error' = Classified(r, "Failed to poll experiment job.")
                        /\ ops'[i].pc = "done" /\ ~isExecuting' )
          /\ \A c \in 1..MaxCancels :
                CancelResponse(c, r)
                => ( /\ error' = Classified(r, "Failed to cancel experiment job.")
                     /\ cancels'[c].pc = "done" /\ ~isExecuting' /\ ~isCancelling' )]_vars

\* a poll answered 422 with a detail, after a submit that succeeded
C25_Witness ==
    /\ opCount = 1 /\ ops[1].kind = "execute" /\ ops[1].pc = "done"
    /\ jobStatus = Some(JobStatus(1, "QUEUED"))
    /\ store = Some(PendingJobSnapshot(1, "ibm_marrakesh", "auto", NullInstance))
    /\ service.nextJob = 2
    /\ error = Err("Request validation failed", << "detail" >>)
    /\ ~isExecuting

\* C26: no operation issues more than maxPollAttempts polls; every submit and
\* every resume in flight eventually leaves its handler; and whenever the
\* controller is executing it is eventually not executing.
C26_EveryOperationTerminates ==
    /\ [](\A i \in 1..MaxOps : ops[i].polls <= maxPollAttempts /\ ops[i].attempt <= maxPollAttempts)
    /\ \A i \in 1..MaxOps : InFlight(ops[i]) ~> (ops[i].pc = "done")
    /\ isExecuting ~> ~isExecuting

\* a submit that used its whole budget and left with the timeout
C26_Witness ==
    /\ opCount = 1 /\ ops[1].kind = "execute" /\ ops[1].pc = "done"
    /\ error = TimedOut
    /\ ~isExecuting

\* a stored value that is a complete pending-job record: a JSON object whose
\* job id and device name are strings, whose runtime channel is one of the four
\* channel names, whose runtime instance is a string or null, and whose
\* backend_url, when it has one, is a string
CompleteRecord(stored) ==
    /\ { "job_id", "backend_name", "runtime_channel", "runtime_instance" } \subseteq DOMAIN stored
    /\ stored.job_id >= 0
    /\ stored.backend_name # "<number>"
    /\ stored.runtime_channel \in {"auto", "ibm_quantum_platform", "ibm_cloud", "ibm_quantum"}
    /\ stored.runtime_instance # "<number>"
    /\ "backend_url" \in DOMAIN stored => stored.backend_url # "<number>"

\* C27 as stated: loading the page on a slot that holds a complete record
\* yields that record and leaves the slot as it is; on any other slot it yields
\* no pending job, leaves the slot empty and shows no error.
C27_LoadClearsWhateverIsNotARecord ==
    [][ Reload =>
          IF store # None /\ CompleteRecord(store[1])
          THEN pendingResumeJob' = store /\ store' = store
          ELSE /\ pendingResumeJob' = None
               /\ store' = None
               /\ error' = NoError /\ shotInputError' = NoError ]_vars

\* C27 amended: as above, except that a slot holding the empty string is read
\* as no pending job and left holding the empty string.
C27_LoadClearsAllButTheEmptyString ==
    [][ Reload =>
          IF store # None /\ CompleteRecord(store[1])
          THEN pendingResumeJob' = store /\ store' = store
          ELSE /\ pendingResumeJob' = None
               /\ store' = IF store = Some(Text("")) THEN store ELSE None
               /\ error' = NoError /\ shotInputError' = NoError ]_vars

\* the slot of a previous session (the service is past job 1) was overwritten
\* and a load has emptied it
C27_Witness ==
    /\ service.nextJob = 2 /\ opCount = 0 /\ ~invoked
    /\ store = None /\ pendingResumeJob = None /\ jobStatus = None
    /\ error = NoError

\* C28: the slot is empty, or holds one record with exactly the four keys of a
\* pending-job snapshot, each populated: an assigned job id, a device name, a
\* runtime channel, and a runtime instance that is null or a trimmed,
\* non-blank text.
C28_SlotEmptyOrCompleteRecord ==
    \/ store = None
    \/ /\ Len(store) = 1
       /\ DOMAIN store[1] = { "job_id", "backend_name", "runtime_channel", "runtime_instance" }
       /\ CompleteRecord(store[1])
       /\ store[1].job_id \in JobIds
       /\ store[1].backend_name # ""
       /\ store[1].runtime_channel \in Channels
       /\ \/ store[1].runtime_instance = NullInstance
          \/ /\ store[1].runtime_instance # ""
             /\ Trim(store[1].runtime_instance) = store[1].runtime_instance

\* a snapshot written at submit from a response that named no device, with the
\* runtime instance box blank
C28_Witness ==
    /\ store = Some(PendingJobSnapshot(1, targetBackend, "auto", NullInstance))
    /\ \E i \in 1..MaxOps : ops[i].kind = "execute" /\ InFlight(ops[i]) /\ ops[i].jobId = 1

\* C29: a submit captures the runtime channel and instance of the inputs at
\* the click; the first poll request it issues carries the job id of the
\* submit response with that runtime selection; and every later poll request
\* of the operation is the same request, whatever the inputs have become.
C29_PollCarriesSubmitTimeSelection ==
    [][\A i \in 1..MaxOps :
          /\ ( ops[i].kind = "none" /\ ops'[i].kind = "execute" )
             => ( /\ ops'[i].runtimeChannelForJob = runtimeChannel
                  /\ ops'[i].runtimeInstanceForJob = runtimeInstance )
          /\ \A submittedJob \in CoreSubmitReplies :
                ( SubmitResponse(i, submittedJob) /\ ops'[i].pc = "poll" )
                => PollRequest(ops'[i]) =
                      [job_id |-> submittedJob.job_id,
                       runtime |-> readRuntimePayload(ops[i].runtimeChannelForJob,
                                                      ops[i].runtimeInstanceForJob)]
          /\ ( ops[i].kind = "execute" /\ ops[i].pc \in {"poll", "sleep"} /\ InFlight(ops'[i]) )
             => PollRequest(ops'[i]) = PollRequest(ops[i]) ]_vars

\* the second poll of a submit is outstanding and the inputs no longer select
\* what the request carries
C29_Witness ==
    /\ opCount = 1 /\ ops[1].kind = "execute" /\ ops[1].pc = "poll" /\ ops[1].polls = 2
    /\ ops[1].jobId = service.nextJob - 1
    /\ readRuntimePayload(runtimeChannel, runtimeInstance) # PollRequest(ops[1]).runtime

\* C30: while the knot is pending or verified no step starts a submit or
\* issues a submit request (the execute button does nothing), and a submit
\* that is in flight belongs to a knot that is compiled or executed.
C30_SubmitOnlyWhenCompiledOrLater ==
    [][\A i \in 1..MaxOps :
          /\ activeKnot.status \in {"pending", "verified"}
             => ( /\ ops'[i].kind = "execute" => ops[i].kind = "execute"
                  /\ ops'[i].submits <= ops[i].submits )
          /\ ( ops'[i].kind = "execute" /\ ops'[i].pc = "submit" )
             => activeKnot'.status \in {"compiled", "executed"} ]_vars

\* a knot that never had a circuit became executed through a resumed job, and
\* a submit for it is in flight
C30_Witness ==
    /\ activeKnot.status = "executed" /\ activeKnot.signature = ""
    /\ opCount = 2 /\ ops[1].kind = "resume" /\ ops[1].pc = "done"
    /\ ops[2].kind = "execute" /\ ops[2].pc = "submit"

\* the texts that denote a whole number between 1 and MAX_SHOTS
WholeShotTexts == {"1", "1000", "1e3", "8192", "100000"}

\* C31: a step that starts a submit is taken with a shots box that denotes a
\* whole number between 1 and 100000 and no shots error shown, the request it
\* issues carries that number, and the shots of every submit in flight lie in
\* the range.
C31_SubmitCarriesShotsInRange ==
    [][\A i \in 1..MaxOps :
          /\ ( ops[i].kind = "none" /\ ops'[i].kind = "execute" )
             => ( /\ shotsInput \in WholeShotTexts
                  /\ shotInputError = NoError
                  /\ ops'[i].shots = NumberOf(shotsInput) )
          /\ ops'[i].pc = "submit"
             => ( ops'[i].shots >= 1 /\ ops'[i].shots <= 100000 ) ]_vars

\* a submit in flight after the exponent form of one thousand was typed
C31_Witness ==
    /\ \E i \in 1..MaxOps : ops[i].pc = "submit" /\ ops[i].shots = 1000
    /\ shotsInput = "1000" /\ executionSettings.shots = 1000

\* C32: when isExecuting is false no submit or resume is still in its handler:
\* none awaits a submit or poll response and none sleeps between polls.
C32_NotExecutingMeansNoLoop ==
    ~isExecuting => \A i \in 1..MaxOps : ~InFlight(ops[i])

\* C33: neither step of a submit that ends before a job is tracked writes the
\* slot or the pending snapshot: the click that local validation rejects, and
\* the submit response that is a failure, a signature mismatch or a body
\* without a job identifier; a snapshot that was there is still offered for
\* resume.
C33_RejectedSubmitLeavesSnapshot ==
    [][ /\ ( ClickExecute /\ ops' = ops )
           => ( /\ error' # NoError
                /\ store' = store /\ pendingResumeJob' = pendingResumeJob )
        /\ \A i \in 1..MaxOps : \A submittedJob \in SubmitReplies :
              ( /\ \/ submittedJob.kind \in {"neterr", "http"}
                   \/ submittedJob.job_id = 0
                   \/ /\ ops[i].generatedSignature # "" /\ submittedJob.signature # ""
                      /\ submittedJob.signature # ops[i].generatedSignature
                /\ SubmitResponse(i, submittedJob) )
              => ( /\ ops'[i].pc = "done"
                   /\ error' # NoError
                   /\ store' = store /\ pendingResumeJob' = pendingResumeJob
                   /\ ops[i].polls = 0
                   /\ ~isExecuting'
                   /\ store # None => hasPendingResume' ) ]_vars

\* the snapshot of the earlier job 1 after a submit that ended on a signature
\* mismatch
C33_Witness ==
    /\ opCount = 1 /\ ops[1].kind = "execute" /\ ops[1].pc = "done"
    /\ error = Err("Generated circuit signature does not match submitted signature", << "A", "B" >>)
    /\ store = Some(PendingJobSnapshot(1, "ibm_marrakesh", "ibm_cloud", "hub"))
    /\ pendingResumeJob = store
    /\ ~isExecuting

\* a poll loop of the job is running: an operation polls it or sleeps between
\* two polls of it
LoopRunningFor(job_id) ==
    \E i \in 1..MaxOps : ops[i].pc \in {"poll", "sleep"} /\ ops[i].jobId = job_id

\* C34: while a poll loop runs for a job and no cancel was ever invoked, the
\* slot holds the record of that job; and a step that takes the record of a
\* job whose loop is running out of the slot is a poll response for that job
\* with a terminal or unexpected status, or a successful cancel response for
\* that job.
C34_RecordRemovedOnlyByItsOwnJob ==
    [][\A job_id \in JobIds :
          /\ ( cancelCount = 0 /\ LoopRunningFor(job_id) )
             => ( store # None /\ store[1].job_id = job_id )
          /\ ( /\ LoopRunningFor(job_id)
               /\ store # None /\ store[1].job_id = job_id
               /\ ~(store' # None /\ store'[1].job_id = job_id) )
             => \/ \E i \in 1..MaxOps :
                      /\ ops[i].jobId = job_id
                      /\ \E pollPayload \in CorePollReplies(job_id) :
                            /\ pollPayload.kind = "json"
                            /\ pollPayload.status \notin IN_PROGRESS_JOB_STATUSES
                            /\ PollResponse(i, pollPayload)
                \/ \E c \in 1..MaxCancels :
                      /\ cancels[c].job_id = job_id
                      /\ \E payload \in CoreCancelReplies(job_id) :
                            payload.kind = "json" /\ CancelResponse(c, payload) ]_vars

\* a cancel request has been answered with a failure
CancelFailed ==
    \E c \in 1..MaxCancels :
        cancels[c].pc = "done" /\ cancels[c].job_id # 0 /\ ~cancels[c].ok

\* C35: a cancel request answered with a failure (no response, 422, another
\* status) surfaces an error and leaves the stored snapshot and the shown job
\* status as they were; the operation the cancel was invoked during issues no
\* further poll request once the failure is in.
C35_FailedCancelStillStopsLoop ==
    [][ /\ \A c \in 1..MaxCancels : \A payload \in CoreFailureReplies :
              CancelResponse(c, payload)
              => ( /\ error' # NoError
                   /\ store' = store /\ pendingResumeJob' = pendingResumeJob
                   /\ jobStatus' = jobStatus )
        /\ \A i \in 1..MaxOps :
              ( CancelFailed /\ ops[i].cancelSeen )
              => ops'[i].polls <= ops[i].polls ]_vars

\* C36: handleExecute and handleResumePendingJob leave the cancellation flag
\* lowered whatever an earlier cancel left in it; a resume issues its first
\* poll at once, and an accepted submit issues its first poll unless cancel
\* was invoked while that operation was in flight.
C36_OperationStartsWithFlagLowered ==
    [][ /\ ( ClickExecute \/ ClickResume ) => ~cancelRequestedRef'
        /\ ClickResume
           => ( ops'[opCount + 1].pc = "poll" /\ ops'[opCount + 1].polls = 1 )
        /\ \A i \in 1..MaxOps : \A submittedJob \in CoreSubmitReplies :
              ( /\ submittedJob.kind = "json" /\ submittedJob.job_id # 0
                /\ ~ /\ ops[i].generatedSignature # "" /\ submittedJob.signature # ""
                     /\ submittedJob.signature # ops[i].generatedSignature
                /\ ~ops[i].cancelSeen
                /\ SubmitResponse(i, submittedJob) )
              => ( ops'[i].pc = "poll" /\ ops'[i].polls = 1 ) ]_vars

\* a cancel invoked during the first operation left the flag raised; the
\* second operation, a submit, has lowered it and issued its first poll
C36_Witness ==
    /\ cancels[1].pc = "done" /\ cancels[1].opsBefore = 1
    /\ ops[1].pc = "done"
    /\ ops[2].kind = "execute" /\ ops[2].pc = "poll" /\ ops[2].polls = 1
    /\ ~ops[2].cancelSeen
    /\ ~cancelRequestedRef

\* /api/jobs/poll of a service that reports a finished job with or without
\* the result payload, and with or without a detail text
CompletedReplies(job_id) ==
    IF service.settled[job_id] # None THEN { service.settled[job_id][1] }
    ELSE { Reply("json", 200, job_id, "RUNNING", "ibm_marrakesh", "", FALSE, ""),
           Reply("json", 200, job_id, "COMPLETED", "ibm_marrakesh", "", TRUE, "") } \cup
         { Reply("json", 200, job_id, "COMPLETED", "ibm_marrakesh", "", FALSE, detail) :
             detail \in {"", "detail"} }

\* The controller, operations started one after the other, against that
\* service.
NextCompleted ==
    \/ Quiescent /\ ClickExecute
    \/ \E i \in 1..MaxOps : \E submittedJob \in CoreSubmitReplies : SubmitResponse(i, submittedJob)
    \/ \E i \in 1..MaxOps :
          /\ ops[i].pc = "poll"
          /\ \E pollPayload \in CompletedReplies(ops[i].jobId) : PollResponse(i, pollPayload)
    \/ \E i \in 1..MaxOps : SleepDone(i)
    \/ Quiescent /\ ClickResume
    \/ ClickCancel
    \/ \E c \in 1..MaxCancels : \E payload \in CoreCancelReplies(cancels[c].job_id) : CancelResponse(c, payload)

SpecCompleted == Init /\ [][NextCompleted]_vars

\* C37 (as claimed): a poll response with status COMPLETED and no counts
\* stores no result, fires no completion callback, ends the operation with
\* the unexpected-status error and clears the slot.
C37_CompletedWithoutResultIsUnexpected ==
    [][\A i \in 1..MaxOps :
          ops[i].pc = "poll" =>
              \A pollPayload \in CompletedReplies(ops[i].jobId) :
                  ( /\ pollPayload.status = "COMPLETED" /\ ~pollPayload.counts
                    /\ PollResponse(i, pollPayload) )
                  => ( /\ ops'[i].pc = "done"
                       /\ result' = result
                       /\ completions' = completions
                       /\ activeKnot' = activeKnot
                       /\ error' = Err("Unexpected runtime job status", << "COMPLETED" >>)
                       /\ store' = None
                       /\ pendingResumeJob' = None )]_vars

\* C37 (amended): such a response stores no result, fires no completion
\* callback, ends the operation and clears the slot; the error raised is the
\* detail of the response if it has one and the unexpected-status message
\* otherwise.
C37_CompletedWithoutResultIsNoSuccess ==
    [][\A i \in 1..MaxOps :
          ops[i].pc = "poll" =>
              \A pollPayload \in CompletedReplies(ops[i].jobId) :
                  ( /\ pollPayload.status = "COMPLETED" /\ ~pollPayload.counts
                    /\ PollResponse(i, pollPayload) )
                  => ( /\ ops'[i].pc = "done"
                       /\ result' = result
                       /\ completions' = completions
                       /\ activeKnot' = activeKnot
                       /\ error' = IF pollPayload.detail # ""
                                      THEN Err(pollPayload.detail, << >>)
                                      ELSE Err("Unexpected runtime job status", << "COMPLETED" >>)
                       /\ store' = None
                       /\ pendingResumeJob' = None )]_vars

C37_Witness ==
    /\ opCount = 1 /\ ops[1].kind = "execute" /\ ops[1].pc = "done"
    /\ jobStatus = Some(JobStatus(2, "COMPLETED"))
    /\ error = Err("Unexpected runtime job status", << "COMPLETED" >>)
    /\ result = None
    /\ store = None /\ ~hasPendingResume
    /\ \A j \in JobIds : completions[j] = 0

\* App.handleKnotCompiled, the onCompiled prop of the ingestion step: the
\* ingested braid word, status 'pending', circuitSummary: undefined
handleKnotCompiled(knot, compiledKnot) ==
    [knot EXCEPT !.braidWord = compiledKnot.braid_word, !.status = "pending",
                 !.signature = ""]

\* App.handleVerificationComplete, the onVerified prop
handleVerificationComplete(knot) ==
    [knot EXCEPT !.status = IF knot.status \in {"compiled", "executed"}
                            THEN knot.status ELSE "verified"]

\* App.handleCircuitGenerated, the onGenerateCircuit prop
handleCircuitGenerated(knot, generatedCircuit) ==
    [knot EXCEPT !.status = "compiled",
                 !.signature = generatedCircuit.circuit_summary.signature]

\* what the ingestion and the circuit generation requests answer with
IngestionResponses == { [braid_word |-> << "s1", "s2^-1", "s1" >>] }
CircuitGenerationResponses == { [circuit_summary |-> [signature |-> "A"]] }

\* the completions of the other pipeline steps, each a setActiveKnot update
KnotCompiled(compiledKnot) ==
    /\ activeKnot' = handleKnotCompiled(activeKnot, compiledKnot)
    /\ UNCHANGED << store, pendingResumeJob, runtimeChannel, runtimeInstance, shotsInput,
                    shotInputError, isExecuting, isCancelling, error, statusDetail,
                    jobStatus, result, cancelRequestedRef, executionSettings, ops,
                    cancels, service, edits, invoked, completions >>

VerificationComplete ==
    /\ activeKnot' = handleVerificationComplete(activeKnot)
    /\ UNCHANGED << store, pendingResumeJob, runtimeChannel, runtimeInstance, shotsInput,
                    shotInputError, isExecuting, isCancelling, error, statusDetail,
                    jobStatus, result, cancelRequestedRef, executionSettings, ops,
                    cancels, service, edits, invoked, completions >>

CircuitGenerated(generatedCircuit) ==
    /\ activeKnot' = handleCircuitGenerated(activeKnot, generatedCircuit)
    /\ UNCHANGED << store, pendingResumeJob, runtimeChannel, runtimeInstance, shotsInput,
                    shotInputError, isExecuting, isCancelling, error, statusDetail,
                    jobStatus, result, cancelRequestedRef, executionSettings, ops,
                    cancels, service, edits, invoked, completions >>

\* The pipeline from the knot App starts with (pending, no circuit summary):
\* ingestion, verification and circuit generation complete at any time, and
\* the execution step is used as in NextLive.
AppKnots == { [status |-> "pending", braidWord |-> << "s1", "s1", "s1" >>, signature |-> ""] }

InitPipeline == InitWith(AppKnots)

NextPipeline ==
    \/ \E compiledKnot \in IngestionResponses : KnotCompiled(compiledKnot)
    \/ VerificationComplete
    \/ \E generatedCircuit \in CircuitGenerationResponses : CircuitGenerated(generatedCircuit)
    \/ Quiescent /\ ClickExecute
    \/ \E i \in 1..MaxOps : \E submittedJob \in CoreSubmitReplies : SubmitResponse(i, submittedJob)
    \/ \E i \in 1..MaxOps :
          /\ ops[i].pc = "poll"
          /\ \E pollPayload \in CorePollReplies(ops[i].jobId) : PollResponse(i, pollPayload)
    \/ \E i \in 1..MaxOps : SleepDone(i)
    \/ Quiescent /\ ClickResume
    \/ ClickCancel
    \/ \E c \in 1..MaxCancels : \E payload \in CoreCancelReplies(cancels[c].job_id) : CancelResponse(c, payload)

SpecPipeline == InitPipeline /\ [][NextPipeline]_vars

\* C38: an active knot whose status is compiled or executed has a circuit
\* summary (handleKnotCompiled removes the summary, so one that is present was
\* generated after the most recent ingestion).
C38_SubmittableKnotHasCircuitSummary ==
    activeKnot.status \in {"compiled", "executed"} => activeKnot.signature # ""

====
